---- MODULE Spec2Model ----
(***************************************************************************)
(* A model of fixer.py, the RTL subtitle fixer: the line fixer (fix_line), *)
(* the batch fixer (fix_subtitles), the SRT parser (SrtParser), the SRT    *)
(* writer (SrtWriter.write_lines) and the file reader (get_file_lines).    *)
(*                                                                         *)
(* Text is modelled as a sequence of one-character strings, a file's raw   *)
(* content as a sequence of byte values, a decoded character as its code   *)
(* point where decoding matters.                                           *)
(***************************************************************************)
EXTENDS Integers, Sequences, FiniteSets, TLC

VARIABLES
    pc,             \* position of the operation under study
    line,           \* fix_line: the argument
    fixed,          \* fix_line: the value returned for line
    refixed,        \* fix_line: the value returned for fixed
    lines,          \* parse_lines: the argument
    idx,            \* parse_lines: index of the next line of the for loop
    parser,         \* SrtParser: the fields _seq, _timing, _text, _state, _lines
    parsed,         \* parse_lines: the list returned
    blocks,         \* write_lines: the argument
    written,        \* write_lines: the characters written to the file
    file_bytes,     \* get_file_lines: the content of the file
    outcome,        \* get_file_lines: how the call ended
    file_lines,     \* get_file_lines: the list returned
    subtitles,      \* fix_subtitles: the argument
    new_subtitles,  \* fix_subtitles: the list being built
    sub_i           \* fix_subtitles: index of the next block of the for loop

fixVars == <<line, fixed, refixed>>
parseVars == <<lines, idx, parser, parsed>>
writeVars == <<blocks, written>>
fileVars == <<file_bytes, outcome, file_lines>>
subsVars == <<subtitles, new_subtitles, sub_i>>
vars == <<pc, fixVars, parseVars, writeVars, fileVars, subsVars>>

(***************************************************************************)
(* Bounds of the inputs.                                                   *)
(***************************************************************************)
MaxLen == 5         \* longest line over LineAlphabet given to fix_line
MaxShortLen == 2    \* longest line over FullAlphabet given to fix_line

(***************************************************************************)
(* Generic helpers.                                                        *)
(***************************************************************************)
Min(a, b) == IF a < b THEN a ELSE b
Max(a, b) == IF a > b THEN a ELSE b

\* Python's s[a:b] for 0-based a, b (negative values do not occur here
\* before clamping; b below a yields the empty sequence).
Slice(s, a, b) ==
    LET lo == Min(Max(a, 0), Len(s))
        hi == Min(Max(b, 0), Len(s))
    IN  IF lo >= hi THEN <<>> ELSE SubSeq(s, lo + 1, hi)

\* All sequences over S of length at most n.
SeqsUpTo(S, n) == UNION {[1..k -> S] : k \in 0..n}

\* s.endswith(t)
EndsWith(s, t) ==
    /\ Len(s) >= Len(t)
    /\ SubSeq(s, Len(s) - Len(t) + 1, Len(s)) = t

(***************************************************************************)
(* The special characters.                                                 *)
(***************************************************************************)
\* The grave accent (U+0060), which a TLA+ string literal cannot hold: it is
\* written as this token wherever it occurs.
GRAVE == "GRAVE"

\* The characters of the raw string literal r'.,:;\'()\-?!+=*&$^%#@~GRAVE" \/'
\* (with the grave accent where GRAVE stands).
SPECIAL_CHARS_RE_SET ==
    << ".", ",", ":", ";", "\\", "'", "(", ")", "\\", "-", "?", "!", "+",
       "=", "*", "&", "$", "^", "%", "#", "@", "~", GRAVE, "\"", " ", "\\", "/" >>

\* The members of the regular-expression character class [cls]: inside a
\* class a backslash escapes the character after it and is no member
\* itself.  (No unescaped "-" occurs in cls, so there are no ranges.)
RECURSIVE ClassMembersFrom(_, _)
\* Faulty variant: every character of cls taken literally.
ClassMembersLiteralFrom(cls, i) ==
    {cls[j] : j \in i..Len(cls)}
ClassMembersFrom(cls, i) ==
    IF i > Len(cls) THEN {}
    ELSE IF cls[i] = "\\" /\ i < Len(cls)
         THEN {cls[i + 1]} \cup ClassMembersFrom(cls, i + 2)
         ELSE {cls[i]} \cup ClassMembersFrom(cls, i + 1)

SpecialChars == ClassMembersFrom(SPECIAL_CHARS_RE_SET, 1)

(***************************************************************************)
(* fix_line.                                                               *)
(***************************************************************************)
\* The greedy match of [SPECIAL]* starting at 1-based position i: the number
\* of characters it consumes.
RECURSIVE MatchStar(_, _)
MatchStar(s, i) ==
    IF i <= Len(s) /\ s[i] \in SpecialChars THEN 1 + MatchStar(s, i + 1) ELSE 0

\* re.search("^([SPECIAL]*)", line).group(1): the match is anchored at the
\* start and always succeeds.
PrefixMatch(s) == SubSeq(s, 1, MatchStar(s, 1))

\* Faulty variants of one attempt of the suffix pattern: without the "$"
\* anchor, and with "." in place of "[^SPECIAL]".
SuffixMatchesAtUnanchored(s, i) == s[i] \notin SpecialChars
SuffixMatchesAtAnyLead(s, i) == i + MatchStar(s, i + 1) = Len(s)

\* One attempt of "[^SPECIAL]([SPECIAL]*)$" at 1-based position i.
SuffixMatchesAt(s, i) ==
    /\ s[i] \notin SpecialChars
    /\ i + MatchStar(s, i + 1) = Len(s)


\* re.search("[^SPECIAL]([SPECIAL]*)$", line): the leftmost position where
\* the pattern matches, 0 when there is none (search returns None).
SuffixSearch(s) ==
    LET hits == {i \in 1..Len(s) : SuffixMatchesAt(s, i)}
    IN  IF hits = {} THEN 0 ELSE CHOOSE i \in hits : \A j \in hits : i <= j

\* suffix_match.group(1) if suffix_match else ""
SuffixMatch(s) ==
    LET at == SuffixSearch(s)
    IN  IF at = 0 THEN <<>> ELSE SubSeq(s, at + 1, at + MatchStar(s, at + 1))

\* Faulty variants of the dash rule: left out, and applied to any suffix
\* ending in a dash.
DashFixNone(suffix) == suffix
DashFixAnyDash(suffix) ==
    IF EndsWith(suffix, <<"-">>)
    THEN Slice(suffix, 0, Len(suffix) - 2) \o <<"-", " ">>
    ELSE suffix

\* if suffix.endswith(" -"): suffix = suffix[:-2] + "- "
DashFix(suffix) ==
    IF EndsWith(suffix, <<" ", "-">>)
    THEN Slice(suffix, 0, Len(suffix) - 2) \o <<"-", " ">>
    ELSE suffix

fix_line(s) ==
    LET prefix == PrefixMatch(s)
        suffix == DashFix(SuffixMatch(s))
    IN  suffix \o Slice(s, Len(prefix), Len(s) - Len(suffix)) \o prefix

(***************************************************************************)
(* Inputs of fix_line.                                                     *)
(***************************************************************************)
LineAlphabet == {"a", " ", "-", ".", "\\"}
FullAlphabet == SpecialChars \cup {"a", "\\", "\t"}

HelloWorld ==
    << "\"", "H", "e", "l", "l", "o", ",", " ", "w", "o", "r", "l", "d", "!", "\"" >>
WaitDash == << "-", " ", "W", "a", "i", "t", " ", "-" >>

FixInputs ==
    SeqsUpTo(LineAlphabet, MaxLen) \cup SeqsUpTo(FullAlphabet, MaxShortLen)
        \cup {HelloWorld, WaitDash}

InitFix ==
    /\ pc = "line"
    /\ line \in FixInputs
    /\ fixed = <<>>
    /\ refixed = <<>>
    /\ lines = <<>> /\ idx = 0 /\ parser = <<>> /\ parsed = <<>>
    /\ blocks = <<>> /\ written = <<>>
    /\ file_bytes = <<>> /\ outcome = "none" /\ file_lines = <<>>
    /\ subtitles = <<>> /\ new_subtitles = <<>> /\ sub_i = 0

\* fixed = fix_line(line)
FixLine ==
    /\ pc = "line"
    /\ fixed' = fix_line(line)
    /\ pc' = "fixed"
    /\ UNCHANGED <<line, refixed, parseVars, writeVars, fileVars, subsVars>>

\* refixed = fix_line(fixed): fix_line applied to its own result
FixLineAgain ==
    /\ pc = "fixed"
    /\ refixed' = fix_line(fixed)
    /\ pc' = "refixed"
    /\ UNCHANGED <<line, fixed, parseVars, writeVars, fileVars, subsVars>>

NextFix == FixLine \/ FixLineAgain

SpecFix == InitFix /\ [][NextFix]_vars

(***************************************************************************)
(* SrtParser.                                                              *)
(***************************************************************************)
STATE_SEQ == 1
STATE_TIMING == 2
STATE_TEXT == 3

\* The namedtuple SrtLine(sequence, timing, text).
SrtLine(sequence, timing, text) ==
    [sequence |-> sequence, timing |-> timing, text |-> text]

\* The characters str.strip() removes that the model's texts can hold.
Whitespace == {" ", "\t"}

\* line.strip()
RECURSIVE LStrip(_)
LStrip(s) ==
    IF s /= <<>> /\ Head(s) \in Whitespace THEN LStrip(Tail(s)) ELSE s
RECURSIVE RStrip(_)
RStrip(s) ==
    IF s /= <<>> /\ s[Len(s)] \in Whitespace
    THEN RStrip(SubSeq(s, 1, Len(s) - 1)) ELSE s
Strip(s) == RStrip(LStrip(s))

\* SrtParser.__init__
NewParser ==
    [seq |-> <<>>, timing |-> <<>>, text |-> <<>>, state |-> STATE_SEQ,
     lines |-> <<>>]

\* SrtParser._handle_seq
handle_seq(p, l) == [p EXCEPT !.seq = l, !.state = STATE_TIMING]

\* SrtParser._handle_timing
handle_timing(p, l) == [p EXCEPT !.timing = l, !.state = STATE_TEXT]

\* Faulty variant of _handle_text: the blank test without strip().
handle_text_no_strip(p, l) ==
    IF l = <<>>
    THEN [p EXCEPT !.lines = Append(@, SrtLine(p.seq, p.timing, p.text)),
                   !.text = <<>>,
                   !.state = STATE_SEQ]
    ELSE [p EXCEPT !.text = Append(@, l)]

\* SrtParser._handle_text
handle_text(p, l) ==
    IF Strip(l) = <<>>
    THEN [p EXCEPT !.lines = Append(@, SrtLine(p.seq, p.timing, p.text)),
                   !.text = <<>>,
                   !.state = STATE_SEQ]
    ELSE [p EXCEPT !.text = Append(@, l)]

\* SrtParser._handle_line
handle_line(p, l) ==
    IF p.state = STATE_SEQ THEN handle_seq(p, l)
    ELSE IF p.state = STATE_TIMING THEN handle_timing(p, l)
    ELSE IF p.state = STATE_TEXT THEN handle_text(p, l)
    ELSE p

\* Faulty variant of the end of parse_lines: no flush of the open block.
finish_no_flush(p) == p

\* The end of parse_lines: the block in progress is flushed.
finish(p) == IF p.state = STATE_TEXT THEN handle_text(p, <<>>) ELSE p

\* The whole of parse_lines on a fresh parser from line i on, as one value.
RECURSIVE parse_from(_, _, _)
parse_from(p, ls, i) ==
    IF i > Len(ls) THEN finish(p).lines
    ELSE parse_from(handle_line(p, ls[i]), ls, i + 1)
parse_lines(ls) == parse_from(NewParser, ls, 1)

\* One iteration of the for loop of parse_lines, in state SEQ.
HandleSeq ==
    /\ pc = "parse"
    /\ idx <= Len(lines)
    /\ parser.state = STATE_SEQ
    /\ parser' = handle_line(parser, lines[idx])
    /\ idx' = idx + 1
    /\ UNCHANGED <<pc, lines, parsed, fixVars, writeVars, fileVars, subsVars>>

\* One iteration of the for loop of parse_lines, in state TIMING.
HandleTiming ==
    /\ pc = "parse"
    /\ idx <= Len(lines)
    /\ parser.state = STATE_TIMING
    /\ parser' = handle_line(parser, lines[idx])
    /\ idx' = idx + 1
    /\ UNCHANGED <<pc, lines, parsed, fixVars, writeVars, fileVars, subsVars>>

\* One iteration of the for loop of parse_lines, in state TEXT.
HandleText ==
    /\ pc = "parse"
    /\ idx <= Len(lines)
    /\ parser.state = STATE_TEXT
    /\ parser' = handle_line(parser, lines[idx])
    /\ idx' = idx + 1
    /\ UNCHANGED <<pc, lines, parsed, fixVars, writeVars, fileVars, subsVars>>

\* The end of parse_lines: flush, then return self._lines[:].
ParseReturn ==
    /\ pc = "parse"
    /\ idx > Len(lines)
    /\ parser' = finish(parser)
    /\ parsed' = parser'.lines
    /\ pc' = "parsed"
    /\ UNCHANGED <<lines, idx, fixVars, writeVars, fileVars, subsVars>>

(***************************************************************************)
(* Inputs of parse_lines.                                                  *)
(***************************************************************************)
MaxInputLines == 5  \* longest list of lines given to parse_lines

RawLines == { <<>>, <<" ">>, <<"1">>, <<"a">>, <<" ", "b", " ">> }

InitParse ==
    /\ pc = "parse"
    /\ lines \in SeqsUpTo(RawLines, MaxInputLines)
    /\ idx = 1
    /\ parser = NewParser
    /\ parsed = <<>>
    /\ line = <<>> /\ fixed = <<>> /\ refixed = <<>>
    /\ blocks = <<>> /\ written = <<>>
    /\ file_bytes = <<>> /\ outcome = "none" /\ file_lines = <<>>
    /\ subtitles = <<>> /\ new_subtitles = <<>> /\ sub_i = 0

NextParse == HandleSeq \/ HandleTiming \/ HandleText \/ ParseReturn

SpecParse == InitParse /\ [][NextParse]_vars

(***************************************************************************)
(* SrtWriter.write_lines, and the reading back of what it wrote.           *)
(***************************************************************************)
\* for line in sub.text: self._file.write(line + '\n')
RECURSIVE WriteText(_)
WriteText(text) ==
    IF text = <<>> THEN <<>>
    ELSE Head(text) \o <<"\n">> \o WriteText(Tail(text))

\* Faulty variant of the separator: never written.
SeparatorNever(subs, i) == <<>>

\* if i != len(subtitles)-1: self._file.write("\n")   (i is 1-based here)
Separator(subs, i) == IF i /= Len(subs) THEN <<"\n">> ELSE <<>>

\* The characters write_lines writes for the blocks from the i-th on.
RECURSIVE write_from(_, _)
write_from(subs, i) ==
    IF i > Len(subs) THEN <<>>
    ELSE subs[i].sequence \o <<"\n">>
           \o subs[i].timing \o <<"\n">>
           \o WriteText(subs[i].text)
           \o Separator(subs, i)
           \o write_from(subs, i + 1)
write_lines(subs) == write_from(subs, 1)

\* content.splitlines(), for content whose only line break is nl: the
\* lines between the breaks, with no empty last line after a final break.
RECURSIVE SplitFrom(_, _, _, _)
SplitFrom(content, i, cur, nl) ==
    IF i > Len(content) THEN (IF cur = <<>> THEN <<>> ELSE <<cur>>)
    ELSE IF content[i] = nl THEN <<cur>> \o SplitFrom(content, i + 1, <<>>, nl)
    ELSE SplitFrom(content, i + 1, Append(cur, content[i]), nl)
splitlines(content, nl) == SplitFrom(content, 1, <<>>, nl)

\* SrtWriter.write_lines(blocks)
WriteLines ==
    /\ pc = "write"
    /\ written' = write_lines(blocks)
    /\ pc' = "read"
    /\ UNCHANGED <<blocks, parseVars, fixVars, fileVars, subsVars>>

\* The written text split into lines and handed to a fresh SrtParser.
ReadLines ==
    /\ pc = "read"
    /\ lines' = splitlines(written, "\n")
    /\ idx' = 1
    /\ parser' = NewParser
    /\ pc' = "parse"
    /\ UNCHANGED <<parsed, writeVars, fixVars, fileVars, subsVars>>

(***************************************************************************)
(* Inputs of write_lines.                                                  *)
(***************************************************************************)
MaxBlocks == 2      \* longest block list given to write_lines
MaxTextLines == 2   \* most text lines of a block given to write_lines

\* The (sequence, timing) labels of the blocks: an ordinary pair, and an
\* empty sequence label with a whitespace-only timing label.
LabelPairs == { << <<"1">>, <<"t">> >>, << <<>>, <<" ">> >> }
\* The text lines of the blocks: non-empty and not whitespace-only.
TextLines == { <<"a">>, <<" ", "b", " ">> }

BlockInputs ==
    { SrtLine(l[1], l[2], x) : l \in LabelPairs,
                               x \in SeqsUpTo(TextLines, MaxTextLines) }

InitRoundTrip ==
    /\ pc = "write"
    /\ blocks \in SeqsUpTo(BlockInputs, MaxBlocks)
    /\ written = <<>>
    /\ lines = <<>> /\ idx = 0 /\ parser = NewParser /\ parsed = <<>>
    /\ line = <<>> /\ fixed = <<>> /\ refixed = <<>>
    /\ file_bytes = <<>> /\ outcome = "none" /\ file_lines = <<>>
    /\ subtitles = <<>> /\ new_subtitles = <<>> /\ sub_i = 0

NextRoundTrip ==
    WriteLines \/ ReadLines \/ HandleSeq \/ HandleTiming \/ HandleText \/ ParseReturn

SpecRoundTrip == InitRoundTrip /\ [][NextRoundTrip]_vars

(***************************************************************************)
(* get_file_lines.  The file is a sequence of bytes; decoded text is a     *)
(* sequence of code points.                                                *)
(***************************************************************************)
YOD == 1497         \* U+05D9, the letter looked for in the content
LF == 10            \* U+000A, the line break

Range(s) == {s[i] : i \in 1..Len(s)}

IsCont(b) == 128 <= b /\ b <= 191

\* The strict UTF-8 decoding of bs from position i on (encoding="utf-8"):
\* ok is FALSE where Python raises UnicodeDecodeError.
RECURSIVE Utf8From(_, _)
Utf8From(bs, i) ==
    IF i > Len(bs) THEN [ok |-> TRUE, text |-> <<>>]
    ELSE
      LET b == bs[i]
          n == IF b < 128 THEN 1
               ELSE IF 194 <= b /\ b <= 223 THEN 2
               ELSE IF 224 <= b /\ b <= 239 THEN 3
               ELSE IF 240 <= b /\ b <= 244 THEN 4
               ELSE 0
          wellFormed ==
              /\ n > 0
              /\ i + n - 1 <= Len(bs)
              /\ \A k \in 1..(n - 1) : IsCont(bs[i + k])
              /\ b = 224 => bs[i + 1] >= 160
              /\ b = 237 => bs[i + 1] <= 159
              /\ b = 240 => bs[i + 1] >= 144
              /\ b = 244 => bs[i + 1] <= 143
          cp == IF n = 1 THEN b
                ELSE IF n = 2 THEN (b - 192) * 64 + (bs[i + 1] - 128)
                ELSE IF n = 3
                     THEN (b - 224) * 4096 + (bs[i + 1] - 128) * 64 + (bs[i + 2] - 128)
                ELSE (b - 240) * 262144 + (bs[i + 1] - 128) * 4096
                       + (bs[i + 2] - 128) * 64 + (bs[i + 3] - 128)
      IN  IF ~wellFormed THEN [ok |-> FALSE, text |-> <<>>]
          ELSE LET rest == Utf8From(bs, i + n)
               IN  [ok |-> rest.ok, text |-> <<cp>> \o rest.text]
Utf8Decode(bs) == Utf8From(bs, 1)

\* The bytes cp1255 leaves undefined.
Cp1255Undefined ==
    {129, 138, 140, 141, 142, 143, 144, 154, 156, 157, 158, 159, 202,
     217, 218, 219, 220, 221, 222, 223, 251, 252, 255}

\* The cp1255 code point of one byte, for the bytes the model reads: ASCII,
\* the Hebrew letters 0xE0..0xFA, and 0x99 and 0xD7.
Cp1255Char(b) ==
    IF b < 128 THEN b
    ELSE IF 224 <= b /\ b <= 250 THEN 1488 + (b - 224)
    ELSE IF b = 153 THEN 8482
    ELSE IF b = 215 THEN 1523
    ELSE 65533

\* The cp1255 decoding of bs (encoding="cp1255"): ok is FALSE where Python
\* raises UnicodeDecodeError.
Cp1255Decode(bs) ==
    [ok |-> \A i \in 1..Len(bs) : bs[i] \notin Cp1255Undefined,
     text |-> [i \in 1..Len(bs) |-> Cp1255Char(bs[i])]]

\* The try block: the file read as UTF-8; returns when the letter is there,
\* falls through to the second read otherwise (also on UnicodeDecodeError).
ReadUtf8 ==
    /\ pc = "utf8"
    /\ LET d == Utf8Decode(file_bytes)
       IN  IF d.ok /\ YOD \in Range(d.text)
           THEN /\ file_lines' = splitlines(d.text, LF)
                /\ outcome' = "returned"
                /\ pc' = "done"
           ELSE /\ pc' = "cp1255"
                /\ UNCHANGED <<file_lines, outcome>>
    /\ UNCHANGED <<file_bytes, fixVars, parseVars, writeVars, subsVars>>

\* The second read, as cp1255: returns when the letter is there, raises
\* DecodeError when it is not; a decoding failure is not caught.
ReadCp1255 ==
    /\ pc = "cp1255"
    /\ LET d == Cp1255Decode(file_bytes)
       IN  IF ~d.ok
           THEN outcome' = "UnicodeDecodeError" /\ UNCHANGED file_lines
           ELSE IF YOD \in Range(d.text)
           THEN outcome' = "returned" /\ file_lines' = splitlines(d.text, LF)
           ELSE outcome' = "DecodeError" /\ UNCHANGED file_lines
    /\ pc' = "done"
    /\ UNCHANGED <<file_bytes, fixVars, parseVars, writeVars, subsVars>>

(***************************************************************************)
(* Inputs of get_file_lines.                                               *)
(***************************************************************************)
MaxFileLen == 3     \* longest file given to get_file_lines

\* "a", the line break, the two bytes of the letter in UTF-8 (0xD7 0x99),
\* the letter in cp1255 (0xE9), and 0x81, which cp1255 leaves undefined.
FileBytes == {97, 10, 215, 153, 233, 129}

InitFile ==
    /\ pc = "utf8"
    /\ file_bytes \in SeqsUpTo(FileBytes, MaxFileLen)
    /\ outcome = "none"
    /\ file_lines = <<>>
    /\ line = <<>> /\ fixed = <<>> /\ refixed = <<>>
    /\ lines = <<>> /\ idx = 0 /\ parser = <<>> /\ parsed = <<>>
    /\ blocks = <<>> /\ written = <<>>
    /\ subtitles = <<>> /\ new_subtitles = <<>> /\ sub_i = 0

NextFile == ReadUtf8 \/ ReadCp1255

SpecFile == InitFile /\ [][NextFile]_vars

(***************************************************************************)
(* fix_subtitles.                                                          *)
(***************************************************************************)
\* Faulty variant of the loop body: the text lines left as they are.
fix_subtitle_unfixed(sub) == SrtLine(sub.sequence, sub.timing, sub.text)

\* The body of the for loop: the block rebuilt with every text line fixed.
fix_subtitle(sub) ==
    SrtLine(sub.sequence, sub.timing,
            [j \in 1..Len(sub.text) |-> fix_line(sub.text[j])])

\* One iteration of the for loop of fix_subtitles.
FixSubtitle ==
    /\ pc = "fix"
    /\ sub_i <= Len(subtitles)
    /\ new_subtitles' = Append(new_subtitles, fix_subtitle(subtitles[sub_i]))
    /\ sub_i' = sub_i + 1
    /\ UNCHANGED <<pc, subtitles, fixVars, parseVars, writeVars, fileVars>>

\* return new_subtitles
FixSubtitlesReturn ==
    /\ pc = "fix"
    /\ sub_i > Len(subtitles)
    /\ pc' = "returned"
    /\ UNCHANGED <<subsVars, fixVars, parseVars, writeVars, fileVars>>

(***************************************************************************)
(* Inputs of fix_subtitles.                                                *)
(***************************************************************************)
MaxSubs == 2        \* longest block list given to fix_subtitles
MaxSubLines == 2    \* most text lines of a block given to fix_subtitles

\* Text lines fix_line changes: ".a" and "a -".
SubTextLines == { <<".", "a">>, <<"a", " ", "-">> }

SubInputs ==
    { SrtLine(l[1], l[2], x) : l \in LabelPairs,
                               x \in SeqsUpTo(SubTextLines, MaxSubLines) }

InitSubs ==
    /\ pc = "fix"
    /\ subtitles \in SeqsUpTo(SubInputs, MaxSubs)
    /\ new_subtitles = <<>>
    /\ sub_i = 1
    /\ line = <<>> /\ fixed = <<>> /\ refixed = <<>>
    /\ lines = <<>> /\ idx = 0 /\ parser = <<>> /\ parsed = <<>>
    /\ blocks = <<>> /\ written = <<>>
    /\ file_bytes = <<>> /\ outcome = "none" /\ file_lines = <<>>

NextSubs == FixSubtitle \/ FixSubtitlesReturn

SpecSubs == InitSubs /\ [][NextSubs]_vars

(***************************************************************************)
(* Properties of fix_line, stated without reference to the pattern search. *)
(***************************************************************************)
\* The longest run of characters of S at the start of s.
LeadingRun(s, S) ==
    LET k == CHOOSE k \in 0..Len(s) :
                 /\ \A j \in 1..k : s[j] \in S
                 /\ k = Len(s) \/ s[k + 1] \notin S
    IN  [j \in 1..k |-> s[j]]

\* The run of characters of S after the last character of s outside S; empty
\* when s has no character outside S.
TrailingRun(s, S) ==
    LET outside == {i \in 1..Len(s) : s[i] \notin S}
    IN  IF outside = {} THEN <<>>
        ELSE LET last == CHOOSE i \in outside : \A j \in outside : j <= i
             IN  [j \in 1..(Len(s) - last) |-> s[last + j]]

\* r with its last two characters " -" replaced by "- ", r itself otherwise.
DashMoved(r) ==
    IF Len(r) >= 2 /\ r[Len(r) - 1] = " " /\ r[Len(r)] = "-"
    THEN [j \in 1..Len(r) |->
            IF j = Len(r) - 1 THEN "-" ELSE IF j = Len(r) THEN " " ELSE r[j]]
    ELSE r

\* s without its first p and last q characters.
Trimmed(s, p, q) == [j \in 1..(Len(s) - p - q) |-> s[p + j]]

\* The swap of the leading and trailing runs of s with respect to S.
Swapped(s, S) ==
    LET P == LeadingRun(s, S)
        R == TrailingRun(s, S)
    IN  DashMoved(R) \o Trimmed(s, Len(P), Len(R)) \o P

AllIn(s, S) == \A i \in 1..Len(s) : s[i] \in S

\* C1: fix_line(line) is S' + core + P, with P the leading special run, S the
\* special run after the last non-special character, S' the dash-rewritten S
\* and core the rest; fix_line('"Hello, world!"') is '!"Hello, world"'.
C1_FixLineSwaps ==
    /\ pc \in {"fixed", "refixed"} => fixed = Swapped(line, SpecialChars)
    /\ pc = "refixed" => refixed = Swapped(fixed, SpecialChars)
    /\ (pc = "fixed" /\ line = HelloWorld) =>
          fixed = << "!", "\"", "H", "e", "l", "l", "o", ",", " ",
                     "w", "o", "r", "l", "d", "\"" >>

C1_Witness ==
    /\ pc = "fixed"
    /\ line = WaitDash
    /\ fixed = << "-", " ", "W", "a", "i", "t", "-", " " >>

\* The set the specification names: the punctuation characters, the
\* space, the forward slash and the backslash.
NamedSpecialChars ==
    { ".", ",", ":", ";", "'", "(", ")", "-", "?", "!", "+", "=", "*", "&",
      "$", "^", "%", "#", "@", "~", GRAVE, "\"", " ", "/", "\\" }

\* C2 as stated: the characters fix_line relocates as part of a leading or
\* trailing run are exactly the named set, the backslash included.
C2_Original ==
    pc \in {"fixed", "refixed"} => fixed = Swapped(line, NamedSpecialChars)

\* C2 as amended: the characters fix_line relocates as part of a leading or
\* trailing run are exactly the named set without the backslash; a leading
\* or trailing backslash stays where it is, like a letter.
C2_SpecialSetWithoutBackslash ==
    pc \in {"fixed", "refixed"} =>
        fixed = Swapped(line, NamedSpecialChars \ {"\\"})

C2_Witness ==
    /\ pc = "fixed"
    /\ line = << "\\", "a", "." >>
    /\ fixed = << ".", "\\", "a" >>

\* C3: a line made of special characters only (the empty line included) is
\* returned unchanged: the prefix is the whole line, the suffix is empty and
\* the core is empty.
C3_AllSpecialUnchanged ==
    (pc \in {"fixed", "refixed"} /\ AllIn(line, SpecialChars)) =>
        /\ fixed = line
        /\ PrefixMatch(line) = line
        /\ SuffixMatch(line) = <<>>
        /\ Slice(line, Len(PrefixMatch(line)), Len(line)) = <<>>

C3_Witness ==
    /\ pc = "fixed"
    /\ line = << ".", " ", "-" >>
    /\ fixed = line

\* C4: a line whose first and last characters are both non-special is
\* returned unchanged, whatever its interior holds.
C4_PlainEndsUnchanged ==
    ( /\ pc \in {"fixed", "refixed"}
      /\ Len(line) >= 1
      /\ line[1] \notin SpecialChars
      /\ line[Len(line)] \notin SpecialChars ) => fixed = line

C4_Witness ==
    /\ pc = "fixed"
    /\ line = << "a", ".", " ", "-", "a" >>
    /\ fixed = line

NoDashRule(s) ==
    /\ ~EndsWith(LeadingRun(s, SpecialChars), << " ", "-" >>)
    /\ ~EndsWith(TrailingRun(s, SpecialChars), << " ", "-" >>)

\* C10 as stated: when neither run ends with " -", fix_line(fix_line(line))
\* is line, and every such line with a non-empty leading or trailing run and
\* a non-special character has fix_line(fix_line(line)) /= fix_line(line).
C10_Original ==
    (pc = "refixed" /\ NoDashRule(line)) =>
        /\ refixed = line
        /\ ( /\ ~AllIn(line, SpecialChars)
             /\ \/ LeadingRun(line, SpecialChars) /= <<>>
                \/ TrailingRun(line, SpecialChars) /= <<>> ) => refixed /= fixed

\* C10 as amended: when neither run ends with " -", fix_line(fix_line(line))
\* is line, and every such line with a non-special character whose leading
\* run differs from its trailing run has
\* fix_line(fix_line(line)) /= fix_line(line).
C10_InvolutionOffDashRule ==
    (pc = "refixed" /\ NoDashRule(line)) =>
        /\ refixed = line
        /\ ( /\ ~AllIn(line, SpecialChars)
             /\ LeadingRun(line, SpecialChars) /= TrailingRun(line, SpecialChars) )
               => refixed /= fixed

C10_Witness ==
    /\ pc = "refixed"
    /\ line = << ".", "a", " " >>
    /\ fixed = << " ", "a", "." >>
    /\ refixed = line

(***************************************************************************)
(* Properties of the parser and the writer.                                *)
(***************************************************************************)
\* C5: the block list parsed from the lines of what write_lines wrote equals
\* the block list written: same blocks, same order, same labels and text.
C5_RoundTrip == pc = "parsed" => parsed = blocks

C5_Witness ==
    /\ pc = "parsed"
    /\ Len(blocks) = 2
    /\ blocks[1].text = << <<"a">>, <<" ", "b", " ">> >>
    /\ blocks[2].sequence = <<>>
    /\ Len(blocks[2].text) = 1
    /\ parsed = blocks

\* C7: when the input ends in state TEXT the block in progress is emitted
\* exactly once, as the last block, and the list returned is the one
\* returned for the input followed by an empty line; when it ends in state
\* SEQ or TIMING nothing is added at the end of the input.
C7_Finalization ==
    [][ (pc = "parse" /\ pc' = "parsed") =>
          IF parser.state = STATE_TEXT
          THEN /\ parsed' = Append(parser.lines,
                                   SrtLine(parser.seq, parser.timing, parser.text))
               /\ parsed' = parse_lines(Append(lines, <<>>))
          ELSE parsed' = parser.lines ]_vars

C7_Witness ==
    /\ pc = "parsed"
    /\ lines = << <<"1">>, <<"a">>, <<"a">>, <<" ", "b", " ">> >>
    /\ parsed = << SrtLine(<<"1">>, <<"a">>, << <<"a">>, <<" ", "b", " ">> >>) >>

\* C9 as stated: every block returned by parse_lines has at least one text
\* line.
C9_Original ==
    pc = "parsed" => \A k \in 1..Len(parsed) : Len(parsed[k].text) >= 1

BlankLine(l) == \A i \in 1..Len(l) : l[i] \in {" ", "\t"}

\* The index in the input of the sequence line of the k-th returned block.
RECURSIVE BlockStart(_, _)
BlockStart(bs, k) ==
    IF k = 1 THEN 1 ELSE BlockStart(bs, k - 1) + Len(bs[k - 1].text) + 3

\* C9 as amended: every block returned by parse_lines has a sequence label
\* and a timing label (the two input lines that open it), and its text is
\* exactly the non-blank lines that follow up to the next blank line or the
\* end of the input; its text is empty exactly when the timing line is
\* followed at once by a blank line or by the end of the input.
C9_BlocksLabelledTextMayBeEmpty ==
    pc = "parsed" =>
        \A k \in 1..Len(parsed) :
            LET b == parsed[k]
                s == BlockStart(parsed, k)
                n == Len(b.text)
            IN  /\ s + 1 <= Len(lines)
                /\ b.sequence = lines[s]
                /\ b.timing = lines[s + 1]
                /\ s + 1 + n <= Len(lines)
                /\ \A j \in 1..n : b.text[j] = lines[s + 1 + j] /\ ~BlankLine(b.text[j])
                /\ s + 2 + n > Len(lines) \/ BlankLine(lines[s + 2 + n])
                /\ n = 0 <=> (s + 2 > Len(lines) \/ BlankLine(lines[s + 2]))

C9_Witness ==
    /\ pc = "parsed"
    /\ lines = << <<"1">>, <<"a">>, <<" ">>, <<"a">>, <<"1">> >>
    /\ parsed = << SrtLine(<<"1">>, <<"a">>, <<>>), SrtLine(<<"a">>, <<"1">>, <<>>) >>

(***************************************************************************)
(* Properties of get_file_lines and fix_subtitles.                         *)
(***************************************************************************)
Utf8HasYod(bs) == Utf8Decode(bs).ok /\ YOD \in Range(Utf8Decode(bs).text)
Cp1255HasYod(bs) == Cp1255Decode(bs).ok /\ YOD \in Range(Cp1255Decode(bs).text)

\* C6: get_file_lines returns lines only from a decoding that succeeded and
\* holds the letter yod, UTF-8 first and cp1255 second, and whenever neither
\* decoding yields content with the letter it fails with DecodeError, with
\* no other error.
C6_DecodeErrorOtherwise ==
    pc = "done" =>
        /\ outcome = "returned" =>
              IF Utf8HasYod(file_bytes)
              THEN file_lines = splitlines(Utf8Decode(file_bytes).text, LF)
              ELSE /\ Cp1255HasYod(file_bytes)
                   /\ file_lines = splitlines(Cp1255Decode(file_bytes).text, LF)
        /\ (~Utf8HasYod(file_bytes) /\ ~Cp1255HasYod(file_bytes))
              => outcome = "DecodeError"

\* C8: fix_subtitles returns as many blocks as it is given, in the same
\* order, each with the labels of its input block, as many text lines, and
\* each text line the fix_line of the input line; the input is not modified.
C8_FixSubtitlesMaps ==
    /\ [](pc = "returned" =>
            /\ Len(new_subtitles) = Len(subtitles)
            /\ \A k \in 1..Len(subtitles) :
                  /\ new_subtitles[k].sequence = subtitles[k].sequence
                  /\ new_subtitles[k].timing = subtitles[k].timing
                  /\ Len(new_subtitles[k].text) = Len(subtitles[k].text)
                  /\ \A j \in 1..Len(subtitles[k].text) :
                        new_subtitles[k].text[j]
                            = Swapped(subtitles[k].text[j], SpecialChars))
    /\ [][subtitles' = subtitles]_vars

C8_Witness ==
    /\ pc = "returned"
    /\ subtitles = << SrtLine(<<"1">>, <<"t">>, << <<".", "a">>, <<"a", " ", "-">> >>),
                      SrtLine(<<>>, <<" ">>, << <<"a", " ", "-">> >>) >>
    /\ new_subtitles = << SrtLine(<<"1">>, <<"t">>, << <<"a", ".">>, <<"-", " ", "a">> >>),
                          SrtLine(<<>>, <<" ">>, << <<"-", " ", "a">> >>) >>

====
